---- MODULE Spec2Model ----
(***************************************************************************)
(* AmazonAthenaRetriever (custom_database_retriever.py): one retriever     *)
(* object and one call of _get_relevant_documents on it (Spec, LiveSpec),  *)
(* and several calls in flight on one retriever (ConcurrentSpec).          *)
(*                                                                         *)
(* Python dicts are functions whose DOMAIN is the set of keys present, so  *)
(* `"k" in d` is "k" \in DOMAIN d and d["k"] on an absent key is KeyError. *)
(* The collaborators (bedrock_client, athena_client) are the environment:  *)
(* every call either raises or returns one of a bounded set of responses.  *)
(* Durations are counted in half time units (time.sleep(0.5) is 1).        *)
(***************************************************************************)
EXTENDS Integers, Sequences, FiniteSets, TLC

VARIABLES
  pc,             \* "new", "ready", "submit", "loop", "sleep", "shape", "returned", "raised"
  athena_client,  \* field of the retriever (value handed to the constructor)
  bedrock_client, \* field of the retriever (value handed to the constructor)
  SQLQuery,       \* locals of _get_relevant_documents
  executionID,
  state,
  max_execution,
  fetch_results,
  queryExecutionStatus, \* the poll response at hand, None before the first
  athenaResults,
  documents,      \* the returned list
  exception,      \* the exception that left the call, "" when none
  raisedAt,       \* history: the step the exception came from
  calls,          \* history: collaborator calls and sleeps, in order
  firstSucceeded, \* history: index of the first poll response reporting SUCCEEDED, 0 if none
  lastWellFormed, \* history: state of the last well-formed poll response, "" if none
  \* several calls in flight on the one retriever (ConcurrentSpec)
  frame,          \* the locals of each invocation of _get_relevant_documents
  callPc,         \* position of each call
  result,         \* the list each call returned
  own,            \* history of each call: what its own collaborator calls returned
  issued          \* execution identifiers the service has handed out

vars == <<pc, athena_client, bedrock_client, SQLQuery, executionID, state,
          max_execution, fetch_results, queryExecutionStatus, athenaResults,
          documents, exception, raisedAt, calls, firstSucceeded, lastWellFormed,
          frame, callPc, result, own, issued>>

cvars == <<frame, callPc, result, own, issued>>

-----------------------------------------------------------------------------
(* Values *)

\* Python's None, and the dict with no keys.
None == [NoneType |-> TRUE]
EmptyDict == [k \in {} |-> TRUE]

\* A name that is not bound yet.
Unbound == "<unbound>"

\* SQL strings the generator may return, identifiers the service may hand out.
SqlStrings == {"SELECT 1", "SELECT 2"}
ExecutionIds == {"e1", "e2"}

\* States get_query_execution reports.
QueryStates == {"QUEUED", "RUNNING", "SUCCEEDED", "FAILED", "CANCELLED"}

\* max_execution = 20
InitialBudget == 20

\* time.sleep(3) and time.sleep(0.5), in half units
LongSleep == 6
ShortSleep == 1

\* Responses of get_query_execution: dicts in which any of the three nested
\* keys may be absent (the client omits members the service did not send).
PollResponses ==
  {EmptyDict,
   [ResponseMetadata |-> EmptyDict],
   [QueryExecution |-> EmptyDict],
   [QueryExecution |-> [Status |-> EmptyDict]]}
  \cup {[QueryExecution |-> [Status |-> [State |-> s]]] : s \in QueryStates}

\* Rows of a result set: a cell is {"VarCharValue": v}, or {} for a NULL value.
MaxRows == 2

Cell(v) == [VarCharValue |-> v]

SampleRows ==
  {[Data |-> <<>>],
   [Data |-> <<Cell("o1")>>],
   [Data |-> <<Cell("o1"), Cell("100.0")>>],
   [Data |-> <<Cell("o2"), Cell("250.0")>>],
   [Data |-> <<Cell("100.0"), Cell("o1")>>],
   [Data |-> <<Cell("o1"), EmptyDict>>]}

RowLists == UNION {[1..n -> SampleRows] : n \in 0..MaxRows}

\* Responses of get_query_results.
FetchResponses ==
  {EmptyDict} \cup {[ResultSet |-> [Rows |-> rows]] : rows \in RowLists}

-----------------------------------------------------------------------------
(* Document(page_content=..., metadata=...): metadata defaults to {} *)

Document(page_content, metadata) ==
  [page_content |-> page_content, metadata |-> metadata]

(* ', '.join(values) *)
RECURSIVE Join(_, _)
Join(sep, values) ==
  IF Len(values) = 0 THEN ""
  ELSE IF Len(values) = 1 THEN values[1]
  ELSE Join(sep, SubSeq(values, 1, Len(values) - 1)) \o sep \o values[Len(values)]

\* [d['VarCharValue'] for d in row['Data']] raises KeyError on a cell without the key
RowRaises(row) ==
  \E i \in 1..Len(row.Data) : "VarCharValue" \notin DOMAIN row.Data[i]

RowValues(row) == [i \in 1..Len(row.Data) |-> row.Data[i].VarCharValue]

RowStr_NoSpace(row) == "[" \o Join(",", RowValues(row)) \o "]"

\* f"[{', '.join(values)}]"
RowStr(row) == "[" \o Join(", ", RowValues(row)) \o "]"

\* value_str after the first n iterations of `for ind in range(len(list_of_rows))`
RECURSIVE ValueStr(_, _)
ValueStr(list_of_rows, n) ==
  IF n = 0 THEN ""
  ELSE ValueStr(list_of_rows, n - 1) \o RowStr(list_of_rows[n])

\* "Process documents for RAG": does building the list raise, and the list built
ShapeRaises(results) ==
  results # None /\
    \/ "ResultSet" \notin DOMAIN results
    \/ "Rows" \notin DOMAIN results.ResultSet
    \/ \E i \in 1..Len(results.ResultSet.Rows) : RowRaises(results.ResultSet.Rows[i])

DataDocument_EmptySentinel(results) ==
  IF results # None
    THEN Document(ValueStr(results.ResultSet.Rows, Len(results.ResultSet.Rows)), EmptyDict)
    ELSE Document("", EmptyDict)

DataDocument(results) ==
  IF results # None
    THEN Document(ValueStr(results.ResultSet.Rows, Len(results.ResultSet.Rows)), EmptyDict)
    ELSE Document("NA", EmptyDict)

MetadataDocument(eid, sql, st) ==
  Document("", [executionID |-> eid, sqlQuery |-> sql, queryState |-> st])

ShapeDocuments_NoSentinel(results, eid, sql, st) ==
  IF results # None
    THEN <<DataDocument(results), MetadataDocument(eid, sql, st)>>
    ELSE <<MetadataDocument(eid, sql, st)>>

ShapeDocuments(results, eid, sql, st) ==
  <<DataDocument(results), MetadataDocument(eid, sql, st)>>

-----------------------------------------------------------------------------
(* The poll loop's pieces *)

\* the three `in` tests guarding the read of the state
HasState(resp) ==
  /\ "QueryExecution" \in DOMAIN resp
  /\ "Status" \in DOMAIN resp.QueryExecution
  /\ "State" \in DOMAIN resp.QueryExecution.Status

PollHandlingRaises_Unguarded(resp) == ~HasState(resp)

\* does handling the response raise
PollHandlingRaises(resp) == FALSE

StateAfterPoll_ResetsOnMalformed(st, resp) ==
  IF HasState(resp) THEN resp.QueryExecution.Status.State ELSE "UNKNOWN"

StateAfterPoll_OnlySuccess(st, resp) ==
  IF HasState(resp) /\ resp.QueryExecution.Status.State = "SUCCEEDED"
    THEN resp.QueryExecution.Status.State ELSE st

\* state after handling the response
StateAfterPoll(st, resp) ==
  IF HasState(resp) THEN resp.QueryExecution.Status.State ELSE st

FetchFlagAfterPoll_AnyTerminal(flag, st, resp) ==
  IF HasState(resp) /\ StateAfterPoll(st, resp) \notin {"QUEUED", "RUNNING"} THEN TRUE ELSE flag

\* fetch_results after handling the response
FetchFlagAfterPoll(flag, st, resp) ==
  IF HasState(resp) /\ StateAfterPoll(st, resp) = "SUCCEEDED" THEN TRUE ELSE flag

LoopCondition_StopsAtOne(budget, flag) == budget > 1 /\ flag = FALSE

LoopCondition_OffByOne(budget, flag) == budget >= 0 /\ flag = FALSE

LoopCondition_IgnoresFlag(budget, flag) == budget > 0

\* while max_execution > 0 and fetch_results == False
LoopCondition(budget, flag) == budget > 0 /\ flag = FALSE

SleepDuration_BeforeDecrement(budget) ==
  IF (budget + 1) % 5 = 0 THEN LongSleep ELSE ShortSleep

SleepDuration_Mod4(budget) == IF budget % 4 = 0 THEN LongSleep ELSE ShortSleep

\* if max_execution % 5 == 0: time.sleep(3) else: time.sleep(0.5)
SleepDuration(budget) == IF budget % 5 = 0 THEN LongSleep ELSE ShortSleep

\* if fetch_results == True
ShouldFetch(flag) == flag = TRUE

AfterPollPc_BreakOnSuccess(flag) == IF flag = TRUE THEN "loop" ELSE "sleep"

\* the sleep is the last statement of the loop body, on every path through it
AfterPollPc(flag) == "sleep"

-----------------------------------------------------------------------------
(* History helpers *)

\* a poll response without the state field
Malformed(resp) ==
  resp \notin {[QueryExecution |-> [Status |-> [State |-> s]]] : s \in QueryStates}

\* what the history keeps of a call's outcome: the SQL string or the execution
\* identifier it returned, Returned for any other response, Raised for none
Raised == "<raised>"
Returned == "<returned>"

Call(op, arg, ret) == [op |-> op, arg |-> arg, ret |-> ret]

Count(op) == Cardinality({i \in 1..Len(calls) : calls[i].op = op})

\* an exception raised at a step: it leaves the call when the step has no
\* handler that swallows it (to = "raised"), else the call goes on at `to`
Raise(exc, at, to) ==
  /\ pc' = to
  /\ exception' = IF to = "raised" THEN exc ELSE exception
  /\ raisedAt' = IF to = "raised" THEN at ELSE raisedAt

GenerateFailurePc_Swallowed == "submit"

\* sql_generator: `except Exception as e: raise e`, and no handler in
\* generate_sql_query or around its call
GenerateFailurePc == "raised"

SubmitFailurePc_Swallowed == "loop"

\* no handler around start_query_execution
SubmitFailurePc == "raised"

\* no handler around get_query_execution
PollFailurePc == "raised"

FetchFailurePc_Swallowed == "shape"

\* no handler around get_query_results
FetchFailurePc == "raised"

-----------------------------------------------------------------------------
(* Several calls on one retriever *)

CallIds == {"call1", "call2"}

Frame_OnTheRetriever(c) == "call1"

\* the locals are local variables of the method: one set per invocation
Frame(c) == c

\* the locals of call c
Local(c) == frame[Frame(c)]

NewFrame ==
  [SQLQuery |-> Unbound, executionID |-> Unbound, state |-> Unbound,
   max_execution |-> InitialBudget, fetch_results |-> FALSE, athenaResults |-> None]

NewHistory ==
  [sql |-> Unbound, eid |-> Unbound, polls |-> 0, ids |-> {}, lastWellFormed |-> "",
   firstSucceeded |-> 0, fetched |-> None]

\* the concurrent calls see these responses of the service
ConcurrentPollResponses ==
  {EmptyDict} \cup
  {[QueryExecution |-> [Status |-> [State |-> s]]] : s \in {"RUNNING", "SUCCEEDED", "FAILED"}}

ConcurrentFetchResponses ==
  {[ResultSet |-> [Rows |-> <<>>]],
   [ResultSet |-> [Rows |-> <<[Data |-> <<Cell("o1"), Cell("100.0")>>],
                             [Data |-> <<Cell("o2"), Cell("250.0")>>]>>]]}

CallsIdle ==
  /\ frame = [c \in CallIds |-> NewFrame]
  /\ callPc = [c \in CallIds |-> "ready"]
  /\ result = [c \in CallIds |-> <<>>]
  /\ own = [c \in CallIds |-> NewHistory]
  /\ issued = {}

-----------------------------------------------------------------------------
Init ==
  /\ CallsIdle
  /\ pc = "new"
  /\ athena_client \in {None, [client |-> "athena"]}
  /\ bedrock_client \in {None, [client |-> "bedrock-runtime"]}
  /\ SQLQuery = Unbound
  /\ executionID = Unbound
  /\ state = Unbound
  /\ max_execution = InitialBudget
  /\ fetch_results = FALSE
  /\ queryExecutionStatus = None
  /\ athenaResults = None
  /\ documents = <<>>
  /\ exception = ""
  /\ raisedAt = ""
  /\ calls = <<>>
  /\ firstSucceeded = 0
  /\ lastWellFormed = ""

ValidatorAccepts_ChecksBoth(values) ==
  values.athena_client # None /\ values.bedrock_client # None

\* create_client: the pre root validator run by the constructor
ValidatorAccepts(values) == values.athena_client # None

create_client ==
  /\ pc = "new"
  /\ IF ValidatorAccepts([athena_client |-> athena_client, bedrock_client |-> bedrock_client])
       THEN pc' = "ready" /\ UNCHANGED <<exception, raisedAt>>
       ELSE Raise("ValueError", "create_client", "raised")
  /\ UNCHANGED cvars
  /\ UNCHANGED <<athena_client, bedrock_client, SQLQuery, executionID, state,
                 max_execution, fetch_results, queryExecutionStatus, athenaResults,
                 documents, calls, firstSucceeded, lastWellFormed>>

\* SQLQuery = self.generate_sql_query(query)
generate_sql_query ==
  /\ pc = "ready"
  /\ IF bedrock_client = None
       THEN /\ Raise("ValueError", "generate_sql_query", GenerateFailurePc)
            /\ UNCHANGED <<SQLQuery, calls>>
       ELSE \/ \* invoke_model or reading the body raises; sql_generator re-raises
               /\ calls' = Append(calls, Call("invoke_model", "", Raised))
               /\ Raise("ClientError", "generate_sql_query", GenerateFailurePc)
               /\ UNCHANGED SQLQuery
            \/ \* response_body lacks content[0].text
               /\ calls' = Append(calls, Call("invoke_model", "", Returned))
               /\ Raise("KeyError", "generate_sql_query", GenerateFailurePc)
               /\ UNCHANGED SQLQuery
            \/ \E sql \in SqlStrings :
                    /\ calls' = Append(calls, Call("invoke_model", "", sql))
                    /\ SQLQuery' = sql
                    /\ pc' = "submit"
                    /\ UNCHANGED <<exception, raisedAt>>
  /\ UNCHANGED cvars
  /\ UNCHANGED <<athena_client, bedrock_client, executionID, state, max_execution,
                 fetch_results, queryExecutionStatus, athenaResults, documents,
                 firstSucceeded, lastWellFormed>>

\* start_query_execution, executionID = response['QueryExecutionId'], and the
\* three initialisations before the loop
start_query_execution ==
  /\ pc = "submit"
  /\ \/ /\ calls' = Append(calls, Call("start_query_execution", SQLQuery, Raised))
        /\ Raise("ClientError", "start_query_execution", SubmitFailurePc)
        /\ UNCHANGED <<executionID, state, max_execution, fetch_results>>
     \/ \E eid \in ExecutionIds :
          /\ calls' = Append(calls, Call("start_query_execution", SQLQuery, eid))
          /\ executionID' = eid
          /\ state' = "RUNNING"
          /\ max_execution' = InitialBudget
          /\ fetch_results' = FALSE
          /\ pc' = "loop"
          /\ UNCHANGED <<exception, raisedAt>>
  /\ UNCHANGED cvars
  /\ UNCHANGED <<athena_client, bedrock_client, SQLQuery, queryExecutionStatus,
                 athenaResults, documents, firstSucceeded, lastWellFormed>>

\* one loop iteration up to the sleep: the decrement, the poll and its handling
get_query_execution ==
  /\ pc = "loop"
  /\ LoopCondition(max_execution, fetch_results)
  /\ max_execution' = max_execution - 1
  /\ \/ /\ calls' = Append(calls, Call("get_query_execution", executionID, Raised))
        /\ Raise("ClientError", "get_query_execution", PollFailurePc)
        /\ UNCHANGED <<state, fetch_results, queryExecutionStatus, firstSucceeded,
                       lastWellFormed>>
     \/ \E resp \in PollResponses :
          /\ calls' = Append(calls, Call("get_query_execution", executionID, Returned))
          /\ queryExecutionStatus' = resp
          /\ firstSucceeded' =
               IF /\ firstSucceeded = 0
                  /\ resp = [QueryExecution |-> [Status |-> [State |-> "SUCCEEDED"]]]
                 THEN Count("get_query_execution") + 1 ELSE firstSucceeded
          /\ lastWellFormed' =
               IF resp \in {[QueryExecution |-> [Status |-> [State |-> s]]] : s \in QueryStates}
                 THEN resp.QueryExecution.Status.State ELSE lastWellFormed
          /\ IF PollHandlingRaises(resp)
               THEN /\ Raise("KeyError", "poll_handling", "raised")
                    /\ UNCHANGED <<state, fetch_results>>
               ELSE /\ state' = StateAfterPoll(state, resp)
                    /\ fetch_results' = FetchFlagAfterPoll(fetch_results, state, resp)
                    /\ pc' = AfterPollPc(fetch_results')
                    /\ UNCHANGED <<exception, raisedAt>>
  /\ UNCHANGED cvars
  /\ UNCHANGED <<athena_client, bedrock_client, SQLQuery, executionID, athenaResults,
                 documents>>

\* the sleep closing the iteration
sleep ==
  /\ pc = "sleep"
  /\ calls' = Append(calls, Call("sleep", SleepDuration(max_execution), Returned))
  /\ pc' = "loop"
  /\ UNCHANGED cvars
  /\ UNCHANGED <<athena_client, bedrock_client, SQLQuery, executionID, state,
                 max_execution, fetch_results, queryExecutionStatus, athenaResults,
                 documents, exception, raisedAt, firstSucceeded, lastWellFormed>>

\* loop exit without a fetch: athenaResults stays None
skip_fetch ==
  /\ pc = "loop"
  /\ ~LoopCondition(max_execution, fetch_results)
  /\ ~ShouldFetch(fetch_results)
  /\ athenaResults' = None
  /\ pc' = "shape"
  /\ UNCHANGED cvars
  /\ UNCHANGED <<athena_client, bedrock_client, SQLQuery, executionID, state,
                 max_execution, fetch_results, queryExecutionStatus, documents,
                 exception, raisedAt, calls, firstSucceeded, lastWellFormed>>

\* loop exit with fetch_results == True: get_query_results
get_query_results ==
  /\ pc = "loop"
  /\ ~LoopCondition(max_execution, fetch_results)
  /\ ShouldFetch(fetch_results)
  /\ \/ /\ calls' = Append(calls, Call("get_query_results", executionID, Raised))
        /\ Raise("ClientError", "get_query_results", FetchFailurePc)
        /\ UNCHANGED athenaResults
     \/ \E resp \in FetchResponses :
          /\ calls' = Append(calls, Call("get_query_results", executionID, Returned))
          /\ athenaResults' = resp
          /\ pc' = "shape"
          /\ UNCHANGED <<exception, raisedAt>>
  /\ UNCHANGED cvars
  /\ UNCHANGED <<athena_client, bedrock_client, SQLQuery, executionID, state,
                 max_execution, fetch_results, queryExecutionStatus, documents,
                 firstSucceeded, lastWellFormed>>

\* "Process documents for RAG" and the return
process_documents ==
  /\ pc = "shape"
  /\ IF ShapeRaises(athenaResults)
       THEN /\ Raise("KeyError", "process_documents", "raised")
            /\ UNCHANGED documents
       ELSE /\ documents' = ShapeDocuments(athenaResults, executionID, SQLQuery, state)
            /\ pc' = "returned"
            /\ UNCHANGED <<exception, raisedAt>>
  /\ UNCHANGED cvars
  /\ UNCHANGED <<athena_client, bedrock_client, SQLQuery, executionID, state,
                 max_execution, fetch_results, queryExecutionStatus, athenaResults,
                 calls, firstSucceeded, lastWellFormed>>

Next ==
  \/ create_client
  \/ generate_sql_query
  \/ start_query_execution
  \/ get_query_execution
  \/ sleep
  \/ skip_fetch
  \/ get_query_results
  \/ process_documents

\* the call runs on one thread to its end: while a step is possible one is taken
LiveSpec == Init /\ [][Next]_vars /\ WF_vars(Next)

Spec == Init /\ [][Next]_vars

-----------------------------------------------------------------------------
(* The calls of CallIds on one constructed retriever, their steps interleaved *)

\* the variables of the single call, left alone here
svars == <<pc, athena_client, bedrock_client, SQLQuery, executionID, state,
           max_execution, fetch_results, queryExecutionStatus, athenaResults,
           documents, exception, raisedAt, calls, firstSucceeded, lastWellFormed>>

ConcurrentInit ==
  /\ CallsIdle
  /\ pc = "ready"
  /\ athena_client = [client |-> "athena"]
  /\ bedrock_client = [client |-> "bedrock-runtime"]
  /\ SQLQuery = Unbound
  /\ executionID = Unbound
  /\ state = Unbound
  /\ max_execution = InitialBudget
  /\ fetch_results = FALSE
  /\ queryExecutionStatus = None
  /\ athenaResults = None
  /\ documents = <<>>
  /\ exception = ""
  /\ raisedAt = ""
  /\ calls = <<>>
  /\ firstSucceeded = 0
  /\ lastWellFormed = ""

\* SQLQuery = self.generate_sql_query(query)
call_generate_sql_query(c) ==
  /\ callPc[c] = "ready"
  /\ \/ /\ callPc' = [callPc EXCEPT ![c] = GenerateFailurePc]
        /\ UNCHANGED <<frame, own>>
     \/ \E sql \in SqlStrings :
          /\ frame' = [frame EXCEPT ![Frame(c)].SQLQuery = sql]
          /\ own' = [own EXCEPT ![c].sql = sql]
          /\ callPc' = [callPc EXCEPT ![c] = "submit"]
  /\ UNCHANGED <<result, issued, svars>>

\* start_query_execution and the initialisations before the loop
call_start_query_execution(c) ==
  /\ callPc[c] = "submit"
  /\ \/ /\ callPc' = [callPc EXCEPT ![c] = SubmitFailurePc]
        /\ UNCHANGED <<frame, own, issued>>
     \/ \E eid \in ExecutionIds \ issued :
          /\ issued' = issued \cup {eid}
          /\ frame' = [frame EXCEPT ![Frame(c)] =
               [@ EXCEPT !.executionID = eid, !.state = "RUNNING",
                         !.max_execution = InitialBudget, !.fetch_results = FALSE]]
          /\ own' = [own EXCEPT ![c].eid = eid]
          /\ callPc' = [callPc EXCEPT ![c] = "loop"]
  /\ UNCHANGED <<result, svars>>

\* one loop iteration up to the sleep
call_get_query_execution(c) ==
  /\ callPc[c] = "loop"
  /\ LoopCondition(Local(c).max_execution, Local(c).fetch_results)
  /\ \/ /\ frame' = [frame EXCEPT ![Frame(c)].max_execution = @ - 1]
        /\ own' = [own EXCEPT ![c] =
             [@ EXCEPT !.polls = @ + 1, !.ids = @ \cup {Local(c).executionID}]]
        /\ callPc' = [callPc EXCEPT ![c] = PollFailurePc]
     \/ \E resp \in ConcurrentPollResponses :
          /\ frame' = [frame EXCEPT ![Frame(c)] =
               [@ EXCEPT !.max_execution = @ - 1,
                         !.state = StateAfterPoll(@, resp),
                         !.fetch_results =
                            FetchFlagAfterPoll(@, Local(c).state, resp)]]
          /\ own' = [own EXCEPT ![c] =
               [@ EXCEPT !.polls = @ + 1,
                         !.ids = @ \cup {Local(c).executionID},
                         !.lastWellFormed =
                            IF Malformed(resp) THEN @ ELSE resp.QueryExecution.Status.State,
                         !.firstSucceeded =
                            IF /\ @ = 0
                               /\ resp = [QueryExecution |-> [Status |-> [State |-> "SUCCEEDED"]]]
                              THEN own[c].polls + 1 ELSE @]]
          /\ callPc' = [callPc EXCEPT ![c] = AfterPollPc(frame'[Frame(c)].fetch_results)]
  /\ UNCHANGED <<result, issued, svars>>

\* the sleep closing the iteration
call_sleep(c) ==
  /\ callPc[c] = "sleep"
  /\ callPc' = [callPc EXCEPT ![c] = "loop"]
  /\ UNCHANGED <<frame, result, own, issued, svars>>

\* loop exit without a fetch
call_skip_fetch(c) ==
  /\ callPc[c] = "loop"
  /\ ~LoopCondition(Local(c).max_execution, Local(c).fetch_results)
  /\ ~ShouldFetch(Local(c).fetch_results)
  /\ frame' = [frame EXCEPT ![Frame(c)].athenaResults = None]
  /\ callPc' = [callPc EXCEPT ![c] = "shape"]
  /\ UNCHANGED <<result, own, issued, svars>>

\* loop exit with fetch_results == True: get_query_results
call_get_query_results(c) ==
  /\ callPc[c] = "loop"
  /\ ~LoopCondition(Local(c).max_execution, Local(c).fetch_results)
  /\ ShouldFetch(Local(c).fetch_results)
  /\ \/ /\ own' = [own EXCEPT ![c].ids = @ \cup {Local(c).executionID}]
        /\ callPc' = [callPc EXCEPT ![c] = FetchFailurePc]
        /\ UNCHANGED frame
     \/ \E resp \in ConcurrentFetchResponses :
          /\ frame' = [frame EXCEPT ![Frame(c)].athenaResults = resp]
          /\ own' = [own EXCEPT ![c] =
               [@ EXCEPT !.ids = @ \cup {Local(c).executionID}, !.fetched = resp]]
          /\ callPc' = [callPc EXCEPT ![c] = "shape"]
  /\ UNCHANGED <<result, issued, svars>>

\* "Process documents for RAG" and the return
call_process_documents(c) ==
  /\ callPc[c] = "shape"
  /\ IF ShapeRaises(Local(c).athenaResults)
       THEN /\ callPc' = [callPc EXCEPT ![c] = "raised"]
            /\ UNCHANGED result
       ELSE /\ result' = [result EXCEPT ![c] =
                 ShapeDocuments(Local(c).athenaResults, Local(c).executionID,
                                Local(c).SQLQuery, Local(c).state)]
            /\ callPc' = [callPc EXCEPT ![c] = "returned"]
  /\ UNCHANGED <<frame, own, issued, svars>>

ConcurrentNext ==
  \/ \E c \in CallIds : call_generate_sql_query(c)
  \/ \E c \in CallIds : call_start_query_execution(c)
  \/ \E c \in CallIds : call_get_query_execution(c)
  \/ \E c \in CallIds : call_sleep(c)
  \/ \E c \in CallIds : call_skip_fetch(c)
  \/ \E c \in CallIds : call_get_query_results(c)
  \/ \E c \in CallIds : call_process_documents(c)

ConcurrentSpec == ConcurrentInit /\ [][ConcurrentNext]_vars

-----------------------------------------------------------------------------
(* Properties *)

\* the call is past the loop and the fetch decision
PastLoop ==
  \/ pc \in {"shape", "returned"}
  \/ pc = "raised" /\ raisedAt \in {"get_query_results", "process_documents"}

\* steps at which a collaborator call, not the retriever's own code, raised
CollaboratorSteps ==
  {"generate_sql_query", "start_query_execution", "get_query_execution", "get_query_results"}

\* C1: when no poll response reports SUCCEEDED, whatever mix of well-formed
\* and malformed responses arrives, the call makes exactly 20 polls before it
\* leaves the loop, never calls get_query_results, raises nothing of its own
\* (only a failing collaborator or the constructor's rejection can end it with
\* an exception), and returns with athenaResults = None.
C1_NeverSucceeded ==
  firstSucceeded = 0 =>
    /\ Count("get_query_results") = 0
    /\ Count("get_query_execution") <= 20
    /\ pc = "raised" => raisedAt \in CollaboratorSteps \cup {"create_client"}
    /\ pc \in {"shape", "returned"} =>
         /\ Count("get_query_execution") = 20
         /\ athenaResults = None
    /\ pc = "returned" => documents # <<>>

C1_Witness ==
  /\ pc = "returned"
  /\ firstSucceeded = 0
  /\ Count("get_query_execution") = 20
  /\ lastWellFormed = ""

\* C2: when the k-th poll response is the first to report SUCCEEDED
\* (1 <= k <= 20), exactly k polls are made, then exactly one
\* get_query_results call, which is the last call of the run: no poll
\* follows the fetch.
C2_SucceededAtK ==
  firstSucceeded # 0 =>
    /\ firstSucceeded \in 1..20
    /\ Count("get_query_execution") = firstSucceeded
    /\ Count("get_query_results") <= 1
    /\ PastLoop =>
         /\ Count("get_query_results") = 1
         /\ calls[Len(calls)].op = "get_query_results"
    /\ \A i \in 1..Len(calls) : \A j \in 1..Len(calls) :
         (i < j /\ calls[i].op = "get_query_results") => calls[j].op # "get_query_execution"

C2_Witness ==
  /\ pc = "returned"
  /\ firstSucceeded = 20
  /\ max_execution = 0
  /\ Count("get_query_results") = 1

\* C3: a call that returns, whether the query succeeded, failed or the
\* budget ran out, returns exactly two documents: first the data document
\* (no metadata), second the metadata document (empty content, the three
\* metadata fields).
C3_TwoDocuments ==
  pc = "returned" =>
    /\ Len(documents) = 2
    /\ DOMAIN documents[1].metadata = {}
    /\ documents[1].page_content = "NA" \/ athenaResults # None
    /\ documents[2].page_content = ""
    /\ DOMAIN documents[2].metadata = {"executionID", "sqlQuery", "queryState"}

C3_Witness ==
  /\ pc = "returned"
  /\ Len(documents) = 2
  /\ state = "CANCELLED"
  /\ max_execution = 0

\* C4: in a returned result the rows are present (a fetch was made) exactly
\* when the metadata's queryState is SUCCEEDED, and state is never SUCCEEDED
\* while fetch_results is False.
C4_RowsIffSucceeded ==
  /\ state = "SUCCEEDED" => fetch_results = TRUE
  /\ pc = "returned" =>
       /\ (athenaResults # None) <=> (documents[2].metadata.queryState = "SUCCEEDED")
       /\ (Count("get_query_results") = 1) <=> (documents[2].metadata.queryState = "SUCCEEDED")
       /\ (documents[1].page_content = "NA") <=> (documents[2].metadata.queryState # "SUCCEEDED")

C4_Witness ==
  /\ pc = "returned"
  /\ athenaResults # None
  /\ documents[2].metadata.queryState = "SUCCEEDED"

\* C5: when no rows were fetched (budget exhausted, possibly with the query
\* in a failure state), document 1's content is exactly "NA", document 2's
\* metadata carries the last state seen, and the call raised nothing of its own.
C5_SentinelWithoutRows ==
  Count("get_query_results") = 0 =>
    /\ pc = "returned" =>
         /\ documents[1].page_content = "NA"
         /\ documents[2].metadata.queryState =
              (IF lastWellFormed = "" THEN "RUNNING" ELSE lastWellFormed)
         /\ exception = ""
    /\ raisedAt # "process_documents"

C5_Witness ==
  /\ pc = "returned"
  /\ Count("get_query_results") = 0
  /\ lastWellFormed = "FAILED"
  /\ documents[2].metadata.queryState = "FAILED"

\* C6: in a returned result the metadata document has empty content,
\* executionID is the identifier the single start_query_execution call
\* returned, sqlQuery is the string the generator returned and the call
\* submitted, and queryState is the state of the last well-formed poll
\* response, or RUNNING when no poll response was well-formed.
C6_MetadataMatchesCall ==
  pc = "returned" =>
    /\ documents[2].page_content = ""
    /\ Count("start_query_execution") = 1
    /\ Count("invoke_model") = 1
    /\ \A i \in 1..Len(calls) :
         /\ calls[i].op = "start_query_execution" =>
              /\ documents[2].metadata.executionID = calls[i].ret
              /\ documents[2].metadata.sqlQuery = calls[i].arg
         /\ calls[i].op = "invoke_model" =>
              documents[2].metadata.sqlQuery = calls[i].ret
    /\ documents[2].metadata.executionID \in ExecutionIds
    /\ documents[2].metadata.sqlQuery \in SqlStrings
    /\ documents[2].metadata.queryState =
         (IF lastWellFormed = "" THEN "RUNNING" ELSE lastWellFormed)

C6_Witness ==
  /\ pc = "returned"
  /\ lastWellFormed = "QUEUED"
  /\ documents[2].metadata =
       [executionID |-> "e2", sqlQuery |-> "SELECT 2", queryState |-> "QUEUED"]

\* the rows of a result set as lists of cell values
PlainRows(results) ==
  [i \in 1..Len(results.ResultSet.Rows) |->
     [j \in 1..Len(results.ResultSet.Rows[i].Data) |->
        results.ResultSet.Rows[i].Data[j].VarCharValue]]

\* the reference serialization, first row and first cell first
RECURSIVE ReferenceCells(_)
ReferenceCells(cells) ==
  IF cells = <<>> THEN ""
  ELSE IF Tail(cells) = <<>> THEN Head(cells)
  ELSE Head(cells) \o ", " \o ReferenceCells(Tail(cells))

RECURSIVE ReferenceContent(_)
ReferenceContent(rows) ==
  IF rows = <<>> THEN ""
  ELSE "[" \o ReferenceCells(Head(rows)) \o "]" \o ReferenceContent(Tail(rows))

\* C7: when rows were fetched, document 1's content is the reference
\* serialization of the rows: each row as "[" + cells joined by ", " + "]",
\* rows in order with nothing between them; no rows give "" and not "NA";
\* [["o1","100.0"],["o2","250.0"]] gives "[o1, 100.0][o2, 250.0]".
C7_RowSerialization ==
  (pc = "returned" /\ athenaResults # None) =>
    /\ documents[1].page_content = ReferenceContent(PlainRows(athenaResults))
    /\ PlainRows(athenaResults) = <<>> =>
         documents[1].page_content = "" /\ documents[1].page_content # "NA"
    /\ PlainRows(athenaResults) = << <<"o1", "100.0">>, <<"o2", "250.0">> >> =>
         documents[1].page_content = "[o1, 100.0][o2, 250.0]"

C7_Witness ==
  /\ pc = "returned"
  /\ athenaResults # None
  /\ PlainRows(athenaResults) = << <<"o1", "100.0">>, <<"o2", "250.0">> >>
  /\ documents[1].page_content = "[o1, 100.0][o2, 250.0]"

\* C8: a failing start_query_execution ends the call with that failure: no
\* documents, the one submit attempt is the last call made, and no poll,
\* sleep or fetch is made.
C8_SubmitFailurePropagates ==
  \A i \in 1..Len(calls) :
    (calls[i].op = "start_query_execution" /\ calls[i].ret = Raised) =>
      /\ pc = "raised"
      /\ raisedAt = "start_query_execution"
      /\ exception # ""
      /\ documents = <<>>
      /\ i = Len(calls)
      /\ Count("start_query_execution") = 1
      /\ Count("get_query_execution") = 0
      /\ Count("sleep") = 0
      /\ Count("get_query_results") = 0

C8_Witness ==
  /\ pc = "raised"
  /\ raisedAt = "start_query_execution"
  /\ calls[Len(calls)] = Call("start_query_execution", SQLQuery, Raised)

\* C9: a failing get_query_results (after a poll reported SUCCEEDED) ends
\* the call with that failure: no documents at all, and the one fetch
\* attempt is the last call made.
C9_FetchFailurePropagates ==
  \A i \in 1..Len(calls) :
    (calls[i].op = "get_query_results" /\ calls[i].ret = Raised) =>
      /\ firstSucceeded # 0
      /\ pc = "raised"
      /\ raisedAt = "get_query_results"
      /\ exception # ""
      /\ documents = <<>>
      /\ i = Len(calls)
      /\ Count("get_query_results") = 1

C9_Witness ==
  /\ pc = "raised"
  /\ raisedAt = "get_query_results"
  /\ state = "SUCCEEDED"
  /\ calls[Len(calls)] = Call("get_query_results", executionID, Raised)

\* generate_sql_query was entered and did not hand back a SQL string
GeneratorFailed ==
  \/ bedrock_client = None /\ pc \notin {"new", "ready"} /\ raisedAt # "create_client"
  \/ calls # <<>> /\ calls[1].ret \notin SqlStrings

\* C10: the calls of one retrieval come in the order invoke_model,
\* start_query_execution, then polls (each followed by its sleep), then at
\* most one get_query_results as the last call; the submit is made only with
\* the SQL the generator returned; when the generator fails the call ends
\* with that failure, with no submit, poll or fetch made and no documents.
C10_CallOrder ==
  /\ \A i \in 1..Len(calls) :
       /\ calls[i].op = "invoke_model" => i = 1
       /\ calls[i].op = "start_query_execution" =>
            /\ i = 2
            /\ calls[1].op = "invoke_model"
            /\ calls[1].ret \in SqlStrings
            /\ calls[i].arg = calls[1].ret
       /\ calls[i].op = "get_query_execution" =>
            /\ i > 2
            /\ calls[2].op = "start_query_execution"
            /\ calls[2].ret \in ExecutionIds
            /\ calls[i - 1].op \in {"start_query_execution", "sleep"}
       /\ calls[i].op = "sleep" =>
            /\ i > 3
            /\ calls[i - 1].op = "get_query_execution"
       /\ calls[i].op = "get_query_results" =>
            /\ i > 3
            /\ i = Len(calls)
            /\ calls[i - 1].op = "sleep"
  /\ GeneratorFailed =>
       /\ pc = "raised"
       /\ raisedAt = "generate_sql_query"
       /\ exception # ""
       /\ documents = <<>>
       /\ Count("start_query_execution") = 0
       /\ Count("get_query_execution") = 0
       /\ Count("get_query_results") = 0

C10_Witness ==
  /\ pc = "raised"
  /\ raisedAt = "generate_sql_query"
  /\ exception = "ClientError"
  /\ calls = <<Call("invoke_model", "", Raised)>>

\* what call c's own collaborator calls told it
OwnState(c) == IF own[c].lastWellFormed = "" THEN "RUNNING" ELSE own[c].lastWellFormed

\* C11: calls running concurrently on one retriever do not interfere,
\* whatever the interleaving: each has its own budget, execution identifier,
\* state and fetch flag, determined by its own collaborator calls alone; each
\* polls and fetches only with the identifier its own submit returned; and
\* each returns the result of a run alone on the responses it received.
C11_CallsIndependent ==
  \A c \in CallIds :
    /\ own[c].ids \subseteq {own[c].eid}
    /\ callPc[c] \in {"loop", "sleep", "shape", "returned"} =>
         /\ Local(c).executionID = own[c].eid
         /\ Local(c).SQLQuery = own[c].sql
         /\ Local(c).max_execution = 20 - own[c].polls
         /\ Local(c).state = OwnState(c)
         /\ Local(c).fetch_results = (own[c].firstSucceeded # 0)
    /\ callPc[c] = "returned" =>
         /\ result[c] = ShapeDocuments(own[c].fetched, own[c].eid, own[c].sql, OwnState(c))
         /\ own[c].polls = (IF own[c].firstSucceeded # 0 THEN own[c].firstSucceeded ELSE 20)
         /\ (own[c].fetched # None) <=> (own[c].firstSucceeded # 0)

C11_Witness ==
  /\ callPc["call1"] = "returned"
  /\ callPc["call2"] = "returned"
  /\ own["call1"].firstSucceeded = 0
  /\ own["call2"].firstSucceeded = 2
  /\ own["call1"].eid = "e2"
  /\ own["call2"].eid = "e1"
  /\ result["call2"][2].metadata.executionID = "e1"
  /\ result["call1"][1].page_content = "NA"

\* the durations of the sleeps made so far, in order
SleepDurations ==
  [i \in 1..Count("sleep") |->
     calls[CHOOSE j \in 1..Len(calls) :
             /\ calls[j].op = "sleep"
             /\ Cardinality({m \in 1..j : calls[m].op = "sleep"}) = i].arg]

\* C12: the i-th loop iteration (remaining budget 20 - i after the
\* decrement) sleeps 3 units (6 half units) when 20 - i is a multiple of 5,
\* that is for i in {5, 10, 15, 20}, and 0.5 units (1 half unit) otherwise,
\* whatever state was polled.
C12_SleepSchedule ==
  /\ Len(SleepDurations) <= 20
  /\ \A i \in 1..Len(SleepDurations) :
       /\ SleepDurations[i] = (IF (20 - i) % 5 = 0 THEN 6 ELSE 1)
       /\ (SleepDurations[i] = 6) <=> (i \in {5, 10, 15, 20})

C12_Witness ==
  /\ pc = "returned"
  /\ Len(SleepDurations) = 20
  /\ SleepDurations[20] = 6
  /\ SleepDurations[19] = 1

\* this step issues a poll
PollStep ==
  /\ Len(calls') = Len(calls) + 1
  /\ calls'[Len(calls')].op = "get_query_execution"

\* states after which the service reports no further transition
TerminalStates == {"SUCCEEDED", "FAILED", "CANCELLED"}

\* C13: once a poll response has reported a terminal state (SUCCEEDED,
\* FAILED or CANCELLED), no further get_query_execution poll is issued.
C13_NoPollAfterTerminal ==
  [][(lastWellFormed \in TerminalStates) => ~PollStep]_vars

\* this step is a poll that returned a malformed response
MalformedPollStep ==
  /\ Len(calls') = Len(calls) + 1
  /\ calls'[Len(calls')] = Call("get_query_execution", executionID, Returned)
  /\ Malformed(queryExecutionStatus')

\* C14: a poll response lacking QueryExecution, Status or State raises
\* nothing and leaves state and fetch_results as they were, but takes one
\* unit of budget and is followed by the scheduled sleep, after which the
\* loop goes on as after any response that is not SUCCEEDED.
C14_MalformedTolerated ==
  [][/\ MalformedPollStep =>
          /\ state' = state
          /\ fetch_results' = fetch_results
          /\ max_execution' = max_execution - 1
          /\ pc' = "sleep"
          /\ exception' = ""
     /\ (pc = "sleep" /\ Malformed(queryExecutionStatus)) =>
          /\ pc' = "loop"
          /\ calls' = Append(calls,
               Call("sleep", IF max_execution % 5 = 0 THEN 6 ELSE 1, Returned))
          /\ state' = state
          /\ fetch_results' = fetch_results
          /\ max_execution' = max_execution]_vars

C14_Witness ==
  /\ pc = "loop"
  /\ Malformed(queryExecutionStatus)
  /\ queryExecutionStatus # None
  /\ state = "FAILED"
  /\ calls[Len(calls)].op = "sleep"

\* C15: every call ends (returns or raises); the loop makes at most 20
\* polls, is left only with the budget at zero or the state SUCCEEDED, and
\* makes no poll once either holds.
C15_Terminates ==
  /\ <>(pc \in {"returned", "raised"})
  /\ [](Count("get_query_execution") <= 20)
  /\ [](PastLoop => (max_execution = 0 \/ state = "SUCCEEDED"))
  /\ [][PollStep => (max_execution > 0 /\ state # "SUCCEEDED" /\ pc = "loop")]_vars

C15_Witness ==
  /\ pc = "returned"
  /\ max_execution = 0
  /\ state = "RUNNING"
  /\ lastWellFormed = "RUNNING"

\* C16: the budget is always in 0..20 and never increases, the polls made
\* so far number 20 minus the budget, and at most one submit and at most one
\* fetch are made.
C16_BudgetAccounting ==
  /\ [](/\ max_execution \in 0..20
        /\ Count("get_query_execution") = 20 - max_execution
        /\ Count("start_query_execution") <= 1
        /\ Count("get_query_results") <= 1)
  /\ [][max_execution' <= max_execution]_vars

C16_Witness ==
  /\ max_execution = 0
  /\ Count("get_query_execution") = 20
  /\ Count("start_query_execution") = 1
  /\ Count("get_query_results") = 1

\* the sum of the first n durations
RECURSIVE SumOf(_, _)
SumOf(durations, n) ==
  IF n = 0 THEN 0 ELSE SumOf(durations, n - 1) + durations[n]

SleepTotal == SumOf(SleepDurations, Len(SleepDurations))

\* C17: after k loop iterations the call has slept k + 5 * floor(k / 5)
\* half units, never more than 40 (20 units); k = 20 is 4 long sleeps and
\* 16 short ones, 40 half units.
C17_TotalSleep ==
  /\ SleepTotal = Count("sleep") + 5 * (Count("sleep") \div 5)
  /\ SleepTotal <= 40
  /\ Count("sleep") = 20 =>
       /\ SleepTotal = 40
       /\ Cardinality({i \in 1..20 : SleepDurations[i] = 6}) = 4
       /\ Cardinality({i \in 1..20 : SleepDurations[i] = 1}) = 16

C17_Witness ==
  /\ Count("sleep") = 20
  /\ SleepTotal = 40

\* the polls that returned a response
ReturnedPolls ==
  {i \in 1..Len(calls) : calls[i] = Call("get_query_execution", executionID, Returned)}

\* C18: every poll that returns is followed by exactly one sleep before
\* anything else, so sleeps and returned polls are equal in number: the
\* iteration that sees SUCCEEDED sleeps before get_query_results, and the
\* 20th iteration of an exhausted run sleeps 3 units before the return.
C18_SleepAfterEveryPoll ==
  /\ \A i \in 1..Len(calls) :
       /\ (i \in ReturnedPolls /\ i < Len(calls)) => calls[i + 1].op = "sleep"
       /\ calls[i].op = "sleep" => (i - 1) \in ReturnedPolls
       /\ calls[i].op = "get_query_results" => calls[i - 1].op = "sleep"
  /\ pc = "sleep" => Len(calls) \in ReturnedPolls
  /\ pc # "sleep" => Count("sleep") = Cardinality(ReturnedPolls)
  /\ (pc \in {"shape", "returned"} /\ firstSucceeded = 0) =>
       calls[Len(calls)] = Call("sleep", 6, Returned)

C18_Witness ==
  /\ pc = "returned"
  /\ firstSucceeded = 3
  /\ calls[Len(calls)].op = "get_query_results"
  /\ calls[Len(calls) - 1] = Call("sleep", 1, Returned)
  /\ Count("sleep") = 3

\* C19: the constructor raises ValueError exactly when athena_client is
\* absent; an absent bedrock_client passes the validator and makes
\* generate_sql_query raise ValueError, before any collaborator call.
C19_ClientValidation ==
  /\ pc # "new" => ((raisedAt = "create_client") <=> (athena_client = None))
  /\ raisedAt = "create_client" =>
       /\ pc = "raised"
       /\ exception = "ValueError"
       /\ calls = <<>>
  /\ (athena_client # None /\ bedrock_client = None) =>
       /\ pc \in {"new", "ready", "raised"}
       /\ pc = "raised" =>
            /\ raisedAt = "generate_sql_query"
            /\ exception = "ValueError"
       /\ calls = <<>>
       /\ documents = <<>>

C19_Witness ==
  /\ athena_client # None
  /\ bedrock_client = None
  /\ pc = "raised"
  /\ raisedAt = "generate_sql_query"
  /\ exception = "ValueError"

====
